---- MODULE Spec2Model ----
(***************************************************************************)
(* data_server: the frame decoder (read_pb_stream), the construction of    *)
(* the in-memory store (MyDataService::new) and the sampling handler       *)
(* (sample_data) of src/data_server/src/main.rs.                           *)
(***************************************************************************)
EXTENDS Integers, Sequences, FiniteSets, TLC

VARIABLES
    files,          \* the input files, in argument order: [kind, bytes]
    origin,         \* history: how each file's bytes were written
    pc,             \* position of main / MyDataService::new
    fi,             \* index of the file the for loop of new is at
    pos,            \* number of bytes the BufReader has consumed
    text_data_list, \* read_pb_stream's Vec, then the Vec new iterates over
    it,             \* how many of its elements new's inner for loop has taken
    groups,         \* new's local Vec<TextData>
    weights,        \* new's local Vec<f32>
    err,            \* the error new returned ("none" while there is none)
    store,          \* the MyDataService handed to the server
    last            \* the outcome of the latest sample_data call

vars == <<files, origin, pc, fi, pos, text_data_list, it, groups, weights, err, store, last>>

----------------------------------------------------------------------------
(* Bounds of the model.                                                    *)

MaxFiles == 2
MaxFrames == 2
MaxItems == 2
MaxSamples == 3

\* Sentence bodies the inputs are written with (one opaque byte each).
SentenceIds == {1, 2}

----------------------------------------------------------------------------
(* Sequences.                                                              *)

Min(a, b) == IF a < b THEN a ELSE b

SeqsUpTo(S, n) == UNION {[1..k -> S] : k \in 0..n}

Drop(s, n) == SubSeq(s, n + 1, Len(s))

Take(s, n) == SubSeq(s, 1, n)

RECURSIVE Flatten(_)
Flatten(ss) == IF ss = <<>> THEN <<>> ELSE Head(ss) \o Flatten(Tail(ss))

----------------------------------------------------------------------------
(* The wire format.  A TextData is written as one length-delimited field   *)
(* per sentence; a frame is the 4-byte little-endian payload length and    *)
(* the payload.                                                            *)

SentenceTag == 34

BadTag == 39

TextData(ss) == [sentences |-> ss]

RECURSIVE EncodeSentences(_)
EncodeSentences(ss) ==
    IF ss = <<>> THEN <<>>
    ELSE <<SentenceTag, 1, Head(ss)>> \o EncodeSentences(Tail(ss))

EncodeTextData(td) == EncodeSentences(td.sentences)

to_le_bytes(n) ==
    <<n % 256, (n \div 256) % 256, (n \div 65536) % 256, (n \div 16777216) % 256>>

EncodeFrame(td) == to_le_bytes(Len(EncodeTextData(td))) \o EncodeTextData(td)

RECURSIVE EncodeFrames(_)
EncodeFrames(tds) ==
    IF tds = <<>> THEN <<>> ELSE EncodeFrame(Head(tds)) \o EncodeFrames(Tail(tds))

\* TextData::decode: [ok, sentences].  Fields are parsed front to back; a
\* key that is not the sentences field, a length running past the buffer or
\* a sentence body of the wrong size is a decode error.
RECURSIVE DecodeSentences(_, _)
DecodeSentences(buf, acc) ==
    IF buf = <<>> THEN [ok |-> TRUE, sentences |-> acc]
    ELSE IF buf[1] # SentenceTag \/ Len(buf) < 2 THEN [ok |-> FALSE, sentences |-> <<>>]
    ELSE IF buf[2] # 1 \/ Len(buf) < 2 + buf[2] THEN [ok |-> FALSE, sentences |-> <<>>]
    ELSE DecodeSentences(Drop(buf, 3), Append(acc, buf[3]))

DecodeTextData(buf) == DecodeSentences(buf, <<>>)

from_be_bytes(b) == 16777216 * b[1] + 65536 * b[2] + 256 * b[3] + b[4]

\* u32::from_le_bytes(size_buf) as usize
from_le_bytes(b) == b[1] + 256 * b[2] + 65536 * b[3] + 16777216 * b[4]

----------------------------------------------------------------------------
(* The inputs.  A file is written from a list of partitions, then possibly *)
(* cut short (cut = number of bytes kept) or damaged (bad = the frame      *)
(* whose first field key is overwritten); it can also be missing, or open  *)
(* but fail to read.                                                       *)

Partitions == {TextData(ss) : ss \in SeqsUpTo(SentenceIds, MaxItems)}

\* One partition per size, its sentences alternating over SentenceIds.
SizedPartition(n) == TextData([p \in 1..n |-> ((n + p) % 2) + 1])

SizedPartitions == {SizedPartition(n) : n \in 0..MaxItems}

FrameEnd(parts, j) == Len(EncodeFrames(Take(parts, j)))

Corrupt(bytes, parts, bad) ==
    IF bad = 0 THEN bytes
    ELSE [bytes EXCEPT ![FrameEnd(parts, bad - 1) + 5] = BadTag]

WriteFile(o) == Take(Corrupt(EncodeFrames(o.parts), o.parts, o.bad), o.cut)

FileOf(o) == [kind |-> o.kind, bytes |-> IF o.kind = "data" THEN WriteFile(o) ELSE <<>>]

NoData(k) == [kind |-> k, parts |-> <<>>, cut |-> 0, bad |-> 0]

\* Every cut point and every damaged frame of every partition list.
OriginsOf(parts) ==
    LET L == Len(EncodeFrames(parts)) IN
        {[kind |-> "data", parts |-> parts, cut |-> c, bad |-> 0] : c \in 0..L}
        \cup {[kind |-> "data", parts |-> parts, cut |-> L, bad |-> j] :
                j \in {k \in 1..Len(parts) : parts[k].sentences # <<>>}}

\* The file less its last byte, or its last frame damaged.
EndOriginsOf(parts) ==
    LET L == Len(EncodeFrames(parts)) IN
        {o \in OriginsOf(parts) :
            (o.cut = L - 1 /\ o.bad = 0) \/ (o.bad # 0 /\ o.bad = Len(parts))}

Whole(parts) ==
    [kind |-> "data", parts |-> parts, cut |-> Len(EncodeFrames(parts)), bad |-> 0]

\* One file of whole frames, over every partition content.
WholeInputs == {<<Whole(parts)>> : parts \in SeqsUpTo(Partitions, MaxFrames)}

\* One file, cut at every point or damaged at every frame, or not there.
CutInputs ==
    {<<o>> : o \in UNION {OriginsOf(parts) : parts \in SeqsUpTo(SizedPartitions, MaxFrames)}}
    \cup {<<NoData("missing")>>, <<NoData("unreadable")>>}

\* The ways to end k consecutive segments of a list of len elements.
Splits(len, k) ==
    {c \in [0..k -> 0..len] :
        /\ c[0] = 0
        /\ c[k] = len
        /\ \A i \in 1..k : c[i - 1] <= c[i]}

Segment(parts, c, i) == SubSeq(parts, c[i - 1] + 1, c[i])

\* What file d can be when it is the one file that is not whole.
NotWhole(parts) == EndOriginsOf(parts) \cup {NoData("missing"), NoData("unreadable")}

\* Several files holding the consecutive segments of one list of
\* partitions, at most one of them (d) not whole.
SplitInputs ==
    UNION {
        UNION {
            {[i \in 1..k |-> Whole(Segment(parts, c, i))]}
            \cup UNION {
                    {[i \in 1..k |-> IF i = d THEN o ELSE Whole(Segment(parts, c, i))] :
                        o \in NotWhole(Segment(parts, c, d))} : d \in 1..k}
            : c \in Splits(Len(parts), k)}
        : parts \in SeqsUpTo(SizedPartitions, MaxFrames), k \in 2..MaxFiles}

\* clap: files is required, so there is at least one.
InputOrigins == WholeInputs \cup CutInputs \cup SplitInputs

----------------------------------------------------------------------------
(* The history of a file, used to state the claims.                        *)

Boundaries(o) == {FrameEnd(o.parts, j) : j \in 0..Len(o.parts)}

\* The number of frames wholly inside the first o.cut bytes.
CompleteFrames(o) ==
    Cardinality({j \in 1..Len(o.parts) : FrameEnd(o.parts, j) <= o.cut})

\* The file ends inside a frame.
MidFrame(o) == o.kind = "data" /\ o.cut \notin Boundaries(o)

\* The file ends inside a payload, its length prefix being whole.
PayloadShort(o) ==
    MidFrame(o) /\ o.cut - FrameEnd(o.parts, CompleteFrames(o)) >= 4

\* A file of whole, undamaged frames.
Clean(o) == o.kind = "data" /\ o.bad = 0 /\ ~MidFrame(o)

Expected(o) == Take(o.parts, CompleteFrames(o))

----------------------------------------------------------------------------
(* Numbers and the two sampling primitives.                                *)

RECURSIVE Ulp(_, _)
Ulp(n, u) == IF n \div u < 16777216 THEN u ELSE Ulp(n, 2 * u)

\* m rounded to a 24-bit significand, ties to even.
RoundF32(m) ==
    LET u == Ulp(m, 1)
        q == m \div u
        r == m % u
    IN  IF 2 * r > u \/ (2 * r = u /\ q % 2 = 1) THEN (q + 1) * u ELSE q * u

\* usize as f32 (and f32 addition of two such values): exact below 2^24,
\* rounded above.  n is evaluated once, then rounded.
AsF32(n) == CHOOSE v \in {RoundF32(m) : m \in {n}} : TRUE

WeightOne(text_data) == AsF32(1)

\* text_data.sentences.len() as f32
Weight(text_data) == AsF32(Len(text_data.sentences))

\* WeightedIndex: the running f32 sum of the first i weights.
RECURSIVE Cumulative(_, _)
Cumulative(gs, i) ==
    IF i = 0 THEN 0 ELSE AsF32(Cumulative(gs, i - 1) + Weight(gs[i]))

ChooseWeightedAny(gs) == 1..Len(gs)

\* choose_weighted: the indices it can return; none when it returns Err (no
\* item, or a total weight of zero).  Index i is returned when the uniform
\* draw from [0, total) falls in [Cumulative(i - 1), Cumulative(i)).
ChooseWeighted(gs) ==
    {i \in 1..Len(gs) : Cumulative(gs, i - 1) < Cumulative(gs, i)}

ClampAtLeastOne(num_samples, len) ==
    IF num_samples > len THEN len ELSE IF num_samples = 0 THEN 1 ELSE num_samples

ClampInverted(num_samples, len) == IF num_samples < len THEN len ELSE num_samples

\* if num_samples > group.sentences.len() { num_samples = group.sentences.len() }
Clamp(num_samples, len) == IF num_samples > len THEN len ELSE num_samples

\* The reservoirs after the elements e..len have been offered: element e
\* draws k in 0..e-1 and replaces slot k when k < amount.
RECURSIVE Reservoirs(_, _, _, _)
Reservoirs(R, e, len, amount) ==
    IF e > len THEN R
    ELSE Reservoirs(
            R \cup {[r EXCEPT ![k] = e] : r \in R, k \in 1..amount},
            e + 1, len, amount)

ChooseMultipleRepeating(len, amount) == [1..Min(len, amount) -> 1..len]

\* iter().choose_multiple(rng, amount) over len elements: the sequences of
\* positions it can return.
ChooseMultiple(len, amount) ==
    IF len < amount THEN {[j \in 1..len |-> j]}
    ELSE Reservoirs({[j \in 1..amount |-> j]}, amount + 1, len, amount)

----------------------------------------------------------------------------
(* The state after construction of the process image.                      *)

NoStore == [published |-> FALSE, groups |-> <<>>, weights |-> <<>>]

NoResponse ==
    [status |-> "none", num_samples |-> 0, sel |-> 0, positions |-> <<>>, samples |-> <<>>]

Init ==
    /\ origin \in InputOrigins
    /\ files = [i \in 1..Len(origin) |-> FileOf(origin[i])]
    /\ pc = "open"
    /\ fi = 1
    /\ pos = 0
    /\ text_data_list = <<>>
    /\ it = 0
    /\ groups = <<>>
    /\ weights = <<>>
    /\ err = "none"
    /\ store = NoStore
    /\ last = NoResponse

----------------------------------------------------------------------------
(* MyDataService::new and read_pb_stream.                                  *)

inputs == <<files, origin>>

Avail == Len(files[fi].bytes) - pos

SizeBuf == SubSeq(files[fi].bytes, pos + 1, pos + 4)

MessageBuf(size) == SubSeq(files[fi].bytes, pos + 5, pos + 4 + size)

\* An Err leaves new through `?`: the locals are dropped, main returns.
Fail(e) ==
    /\ err' = e
    /\ pc' = "failed"
    /\ groups' = <<>>
    /\ weights' = <<>>
    /\ text_data_list' = <<>>
    /\ UNCHANGED <<inputs, fi, pos, it, store, last>>

\* File::open(filename)? succeeds; read_pb_stream starts.
OpenFile ==
    /\ pc = "open"
    /\ fi <= Len(files)
    /\ files[fi].kind # "missing"
    /\ pc' = "read"
    /\ pos' = 0
    /\ text_data_list' = <<>>
    /\ UNCHANGED <<inputs, fi, it, groups, weights, err, store, last>>

OpenFail ==
    /\ pc = "open"
    /\ fi <= Len(files)
    /\ files[fi].kind = "missing"
    /\ Fail("io")

\* read_exact fails with an error other than UnexpectedEof.
ReadIoErr ==
    /\ pc = "read"
    /\ files[fi].kind = "unreadable"
    /\ Fail("io")

\* read_exact(&mut size_buf) is UnexpectedEof: break, Ok(text_data_list).
ReadEof ==
    /\ pc = "read"
    /\ files[fi].kind = "data"
    /\ Avail < 4
    /\ pos' = Len(files[fi].bytes)
    /\ pc' = "append"
    /\ it' = 0
    /\ UNCHANGED <<inputs, fi, text_data_list, groups, weights, err, store, last>>

ReadPayloadShortAsEof ==
    /\ pc = "read"
    /\ files[fi].kind = "data"
    /\ Avail >= 4
    /\ from_le_bytes(SizeBuf) > Avail - 4
    /\ pos' = Len(files[fi].bytes)
    /\ pc' = "append"
    /\ it' = 0
    /\ UNCHANGED <<inputs, fi, text_data_list, groups, weights, err, store, last>>

\* reader.read_exact(&mut message_buf)? is UnexpectedEof.
ReadPayloadShort ==
    /\ pc = "read"
    /\ files[fi].kind = "data"
    /\ Avail >= 4
    /\ from_le_bytes(SizeBuf) > Avail - 4
    /\ Fail("unexpected_eof")

\* TextData::decode fails: InvalidData.
ReadDecodeErr ==
    /\ pc = "read"
    /\ files[fi].kind = "data"
    /\ Avail >= 4
    /\ LET size == from_le_bytes(SizeBuf) IN
        /\ size <= Avail - 4
        /\ ~DecodeTextData(MessageBuf(size)).ok
    /\ Fail("invalid_data")

\* One frame read and decoded: text_data_list.push(text_data).
ReadFrame ==
    /\ pc = "read"
    /\ files[fi].kind = "data"
    /\ Avail >= 4
    /\ LET size == from_le_bytes(SizeBuf)
           d == DecodeTextData(MessageBuf(size))
       IN
        /\ size <= Avail - 4
        /\ d.ok
        /\ text_data_list' = Append(text_data_list, TextData(d.sentences))
        /\ pos' = pos + 4 + size
    /\ UNCHANGED <<inputs, pc, fi, it, groups, weights, err, store, last>>

AppendGroupFront ==
    /\ pc = "append"
    /\ it < Len(text_data_list)
    /\ groups' = <<text_data_list[it + 1]>> \o groups
    /\ pc' = "push_weight"
    /\ UNCHANGED <<inputs, fi, pos, text_data_list, it, weights, err, store, last>>

\* groups.push(text_data.clone())
AppendGroup ==
    /\ pc = "append"
    /\ it < Len(text_data_list)
    /\ groups' = Append(groups, text_data_list[it + 1])
    /\ pc' = "push_weight"
    /\ UNCHANGED <<inputs, fi, pos, text_data_list, it, weights, err, store, last>>

\* weights.push(text_data.sentences.len() as f32)
AppendWeight ==
    /\ pc = "push_weight"
    /\ weights' = Append(weights, Weight(text_data_list[it + 1]))
    /\ it' = it + 1
    /\ pc' = "append"
    /\ UNCHANGED <<inputs, fi, pos, text_data_list, groups, err, store, last>>

\* The inner for loop is done: on to the next file.
NextFile ==
    /\ pc = "append"
    /\ it = Len(text_data_list)
    /\ fi' = fi + 1
    /\ pc' = "open"
    /\ text_data_list' = <<>>
    /\ it' = 0
    /\ UNCHANGED <<inputs, pos, groups, weights, err, store, last>>

\* Ok(MyDataService { groups, weights }); main starts the server with it.
Finish ==
    /\ pc = "open"
    /\ fi > Len(files)
    /\ store' = [published |-> TRUE, groups |-> groups, weights |-> weights]
    /\ groups' = <<>>
    /\ weights' = <<>>
    /\ pc' = "serving"
    /\ UNCHANGED <<inputs, fi, pos, text_data_list, it, err, last>>

----------------------------------------------------------------------------
(* sample_data.  The handler has no await between its entry and its        *)
(* return and writes nothing but its own locals, so each call is one step, *)
(* whatever the number of calls in progress; last holds the outcome of the *)
(* latest one, with the group and the positions that were drawn.           *)

Samples(i, p) == [k \in 1..Len(p) |-> store.groups[i].sentences[p[k]]]

Respond(n, i, p) ==
    /\ pc = "serving"
    /\ i \in ChooseWeighted(store.groups)
    /\ p \in ChooseMultiple(Len(store.groups[i].sentences),
                            Clamp(n, Len(store.groups[i].sentences)))
    /\ last' = [status |-> "ok", num_samples |-> n, sel |-> i, positions |-> p,
                samples |-> Samples(i, p)]
    /\ UNCHANGED <<inputs, pc, fi, pos, text_data_list, it, groups, weights, err>>

SampleDataOkTaking(n, i, p) ==
    /\ Respond(n, i, p)
    /\ store' = [store EXCEPT !.groups[i].sentences =
                    [k \in 1..Len(@) - Len(p) |-> @[k]]]

\* A group is chosen; the handler reads the store through &self.
SampleDataOk(n, i, p) ==
    /\ Respond(n, i, p)
    /\ UNCHANGED store

\* choose_weighted is Err: Status::internal("Failed to select a group").
SampleDataErr(n) ==
    /\ pc = "serving"
    /\ ChooseWeighted(store.groups) = {}
    /\ last' = [status |-> "internal", num_samples |-> n, sel |-> 0,
                positions |-> <<>>, samples |-> <<>>]
    /\ UNCHANGED <<inputs, pc, fi, pos, text_data_list, it, groups, weights, err, store>>

SampleData ==
    \E n \in 0..MaxSamples :
        \/ \E i \in 1..Len(store.groups) :
            \E p \in ChooseMultiple(Len(store.groups[i].sentences),
                                    Clamp(n, Len(store.groups[i].sentences))) :
                SampleDataOk(n, i, p)
        \/ SampleDataErr(n)

----------------------------------------------------------------------------

Next ==
    \/ OpenFile
    \/ OpenFail
    \/ ReadIoErr
    \/ ReadEof
    \/ ReadPayloadShort
    \/ ReadDecodeErr
    \/ ReadFrame
    \/ AppendGroup
    \/ AppendWeight
    \/ NextFile
    \/ Finish
    \/ SampleData

Spec == Init /\ [][Next]_vars

----------------------------------------------------------------------------
(* Properties.                                                             *)

\* read_pb_stream has returned Ok for file f.
ReadOk(f) == f < fi \/ (f = fi /\ pc \in {"append", "push_weight"})

\* Opening the file fails, or the decoder fails on one of its frames.
Fails(o) == o.kind # "data" \/ o.bad # 0 \/ PayloadShort(o)

HasItems(gs) == \E i \in 1..Len(gs) : Len(gs[i].sentences) > 0

Injective(p) == \A j, k \in 1..Len(p) : p[j] = p[k] => j = k

Parallel(gs, ws) ==
    /\ Len(gs) = Len(ws)
    /\ \A i \in 1..Len(gs) : ws[i] = Len(gs[i].sentences)

\* C1: a byte stream that ends in the middle of a frame (inside a length
\* prefix or inside a payload) is never read successfully, so new never
\* succeeds on it.
C1_TruncatedFileRejected ==
    \A f \in 1..Len(files) : MidFrame(origin[f]) => ~ReadOk(f)

\* C2: a stream of k whole frames is read successfully, and what is read is
\* the k partitions that were written, in order; the end of the stream at a
\* frame boundary is not an error.
C2_RoundTrip ==
    \A f \in 1..Len(files) :
        Clean(origin[f]) =>
            /\ ~(pc = "failed" /\ fi = f)
            /\ (f = fi /\ pc \in {"append", "push_weight"} =>
                    text_data_list = Expected(origin[f]))

C2_Witness ==
    /\ pc = "append"
    /\ it = 0
    /\ Clean(origin[fi])
    /\ origin[fi].cut = Len(EncodeFrames(origin[fi].parts))
    /\ Len(text_data_list) = 2
    /\ Len(text_data_list[1].sentences) = 2
    /\ text_data_list[1].sentences[1] # text_data_list[1].sentences[2]
    /\ text_data_list[1] # text_data_list[2]

\* C3: a request that selects a partition returns min(requested count,
\* size of the selected partition) items.
C3_ClampedCount ==
    last.status = "ok" =>
        Len(last.samples) = Min(last.num_samples, Len(store.groups[last.sel].sentences))

C3_Witness ==
    /\ last.status = "ok"
    /\ Len(store.groups[last.sel].sentences) = 2
    /\ last.num_samples > 2
    /\ Len(last.samples) = 2

\* C4 as claimed: a request for 0 samples returns an empty result without
\* error, whatever the store.
C4_ZeroNeverFails ==
    (last.status # "none" /\ last.num_samples = 0) =>
        (last.status = "ok" /\ last.samples = <<>>)

\* C4 amended: a request for 0 samples returns an empty result without error
\* when some partition of the store has an item, and fails with the internal
\* error otherwise.
C4_ZeroIsEmptyOrNoGroup ==
    (last.status # "none" /\ last.num_samples = 0) =>
        IF HasItems(store.groups)
        THEN last.status = "ok" /\ last.samples = <<>>
        ELSE last.status = "internal"

C4_Witness ==
    /\ last.status = "ok"
    /\ last.num_samples = 0
    /\ last.samples = <<>>
    /\ Len(store.groups[last.sel].sentences) = 2

\* C5: the items returned are the items at pairwise distinct positions of
\* one partition of the store.
C5_DistinctPositionsOfOnePartition ==
    last.status = "ok" =>
        /\ last.sel \in 1..Len(store.groups)
        /\ \A k \in 1..Len(last.positions) :
                last.positions[k] \in 1..Len(store.groups[last.sel].sentences)
        /\ Injective(last.positions)
        /\ last.samples = Samples(last.sel, last.positions)

C5_Witness ==
    /\ last.status = "ok"
    /\ Len(store.groups) = 2
    /\ Len(last.positions) = 2
    /\ last.positions[1] # last.positions[2]
    /\ last.samples[1] = last.samples[2]

\* The sample in which no later element displaces one of the first.
FirstPositions(n, i) == [j \in 1..Min(n, Len(store.groups[i].sentences)) |-> j]

\* C6: a partition is picked only if it has an item, every partition with an
\* item can be picked, and the request fails with the internal error exactly
\* when no partition has an item (in particular when there is none); then
\* every request fails.
C6_Selection ==
    /\ last.status = "ok" => Len(store.groups[last.sel].sentences) > 0
    /\ last.status = "internal" => ~HasItems(store.groups)
    /\ pc = "serving" =>
        \A n \in 0..MaxSamples :
            /\ \A i \in 1..Len(store.groups) :
                    Len(store.groups[i].sentences) > 0 <=>
                        ENABLED SampleDataOk(n, i, FirstPositions(n, i))
            /\ ~HasItems(store.groups) <=> ENABLED SampleDataErr(n)

C6_Witness ==
    /\ last.status = "ok"
    /\ last.sel = 2
    /\ store.groups[1].sentences = <<>>

C8_FileThenFrameOrder ==
    /\ pc = "serving" =>
        store.groups = Flatten([f \in 1..Len(origin) |-> Expected(origin[f])])
    /\ pc = "open" =>
        groups = Flatten([f \in 1..(fi - 1) |-> Expected(origin[f])])

C8_Witness ==
    /\ pc = "serving"
    /\ Len(files) = 2
    /\ Len(origin[1].parts) = 1
    /\ Len(origin[2].parts) = 1
    /\ origin[1].parts # origin[2].parts
    /\ Len(store.groups) = 2

\* C9: outside the two pushes of one append, and while serving, the weights
\* are parallel to the partitions, weights[i] being the number of items of
\* partition i, which is also the weight the selection computes.
C9_WeightsParallel ==
    /\ pc # "push_weight" => Parallel(groups, weights)
    /\ store.published =>
        /\ Parallel(store.groups, store.weights)
        /\ \A i \in 1..Len(store.groups) : Weight(store.groups[i]) = store.weights[i]

C9_Witness ==
    /\ pc = "serving"
    /\ last.status = "ok"
    /\ Len(store.weights) = 2
    /\ store.weights[1] = 0
    /\ store.weights[2] = 2

\* C10: no sample_data call, successful or failed, changes the store.
C10_StoreUnchanged == [][pc = "serving" => store' = store]_vars

C10_Witness ==
    /\ pc = "serving"
    /\ last.status = "ok"
    /\ Len(last.samples) = 2
    /\ store.published

====
